---------------------------- MODULE Spec2Model ----------------------------
(***************************************************************************)
(* Model of seamm_dashboard/routes/projects/views.py: the request handlers *)
(* edit_project, manage_project and add_project over the Project table,    *)
(* the Job table, the user/project association table (the Access Control   *)
(* Table) and the project directories on disk.                             *)
(*                                                                         *)
(* Paths are sequences of path components, form field names are sequences  *)
(* of the tokens that "_" separates.                                       *)
(***************************************************************************)
EXTENDS Integers, Sequences, FiniteSets, TLC

\* ------------------------------------------------------------------ bounds
MaxProjects == 3      \* cap on the number of Project records (add_project)
NumUsers    == 2      \* size of the user roster (User.query.all())
MaxRequests == 2      \* requests served in a run of Spec and SpecInterleaved
NumWorkers  == 2      \* requests in flight at once in SpecInterleaved

\* ------------------------------------------------------------ input domains
Names  == {"A", "B"}                      \* form.name.data
Notes  == {"n1", "n2"}                    \* form.notes.data
Submit == {"GET", "POST_invalid", "POST_valid"}
\* the boxes a submission may tick for one user
CheckedChoices == {{}, {"read"}, {"read", "update"}}

Users   == 1 .. NumUsers
\* get_current_user() of a management request: the first or the last user
Requesters == {1, NumUsers}
Workers == 1 .. NumWorkers

\* _bind_users_to_form: actions = ["read", "update", "create", "delete", "manage"]
actions == <<"read", "update", "create", "delete", "manage">>

\* `datastore`, the root under which add_project creates <root>/projects/<name>
datastore == <<"ds">>

VARIABLES
  projects,   \* Project table: sequence (index = id) of records
  jobs,       \* Job table: sequence (index = id) of [project, path]
  dirs,       \* directories that exist on disk
  assoc,      \* UserProjectAssociation table: sequence of rows
  last,       \* the last request served and its response
  nreq,       \* number of requests begun (Spec, SpecInterleaved)
  workers     \* SpecInterleaved: each in-flight manage_project request

vars == <<projects, jobs, dirs, assoc, last, nreq, workers>>

Range(s) == {s[i] : i \in DOMAIN s}

\* ------------------------------------------------------------------ paths
\* os.path.dirname
dirname(path) == SubSeq(path, 1, Len(path) - 1)

\* os.path.join(dir, name), name a single relative component
join(dir, name) == Append(dir, name)

\* Path(datastore).expanduser() / "projects" / name
project_path(name) == datastore \o <<"projects", name>>

\* SQL replace(s, from, to): every non-overlapping occurrence of `from` in s,
\* left to right, becomes `to`
RECURSIVE replace(_, _, _)
replace(s, from, to) ==
  IF Len(from) = 0 \/ Len(s) < Len(from) THEN s
  ELSE IF SubSeq(s, 1, Len(from)) = from
       THEN to \o replace(SubSeq(s, Len(from) + 1, Len(s)), from, to)
       ELSE <<Head(s)>> \o replace(Tail(s), from, to)


\* --------------------------------------------------------------- the tables
\* Project.create(name, description, path): the permissions a new project gets
DefaultPermissions ==
  [owner |-> actions, group |-> <<"read">>, other |-> <<>>]

NewProject(name, notes, path) ==
  [name |-> name, description |-> notes, path |-> path,
   permissions |-> DefaultPermissions]

\* Project.query.get(project_id): the record, or None
HasProject(pid) == pid \in DOMAIN projects

\* Project.query.filter(Project.name == name): ids of the matching records
ProjectsNamed(name) == {q \in DOMAIN projects : projects[q].name = name}

\* [x.id for x in project.jobs]
job_ids(pid) == {j \in DOMAIN jobs : jobs[j].project = pid}

\* Job.query.filter(Job.id.in_(ids)).update({Job.path: replace(Job.path, path, new_path)})
UpdateJobPaths(ids, path, new_path) ==
  [j \in DOMAIN jobs |->
     IF j \in ids
     THEN [jobs[j] EXCEPT !.path = replace(jobs[j].path, path, new_path)]
     ELSE jobs[j]]

\* What becomes of statements issued but not committed when the handler
\* raises: the request's session is discarded by code outside this file.
SessionOnError == {"rollback", "persist"}

\* ------------------------------------------------------- request / response
NoChecked == [u \in Users |-> {}]

\* The last request and its response.  authorized: what authorize.update /
\* authorize.manage answers for it (get_current_user() is not None for
\* add_project); valid: the handler went past validate_on_submit(), and then
\* name, notes, allow_public, checked are the values the form carried.
Response(op, pid, authorized, outcome, name, notes, allow_public, checked) ==
  [op |-> op, pid |-> pid, authorized |-> authorized, valid |-> TRUE,
   outcome |-> outcome, name |-> name, notes |-> notes,
   allow_public |-> allow_public, checked |-> checked]

\* the response of a request whose form values were not read
Plain(op, pid, authorized, outcome) ==
  [op |-> op, pid |-> pid, authorized |-> authorized, valid |-> FALSE,
   outcome |-> outcome, name |-> "", notes |-> "",
   allow_public |-> FALSE, checked |-> NoChecked]

NoRequest == Plain("none", 0, FALSE, "none")

\* a worker that serves no request
Idle == [pc |-> "idle", pid |-> 0, permissions_dict |-> <<>>, idx |-> 0, found |-> 0]

\* each job's path relative to its project's directory
JobSuffix == << <<"Job_1">>, <<"Job_2">> \o project_path("A") >>

\* ------------------------------------------------------------------- Init
\* One project, "A", created as add_project creates it, with two jobs under
\* its directory (the second holds a copy of the project tree), one explicit
\* grant, and either no public permission or a wider one than "read".
Init ==
  /\ \E other \in {<<>>, <<"read", "update">>} :
       projects = << [NewProject("A", "n1", project_path("A"))
                        EXCEPT !.permissions.other = other] >>
  /\ jobs = [j \in DOMAIN JobSuffix |->
               [project |-> 1, path |-> project_path("A") \o JobSuffix[j]]]
  /\ dirs = {project_path("A")}
  /\ assoc = << [entity_id |-> 1, resource_id |-> 1,
                 permissions |-> <<"read", "update">>] >>
  /\ last = NoRequest
  /\ nreq = 0
  /\ workers = [w \in Workers |-> Idle]

\* ----------------------------------------------------------- authorization
\* a guard that lets every edit request through
update_never_denied(authorized) == FALSE

\* line 102: if not authorize.update(project): return render_template("401.html")
update_denied(authorized) == ~authorized

\* line 165: if not authorize.manage(project): return render_template("401.html")
manage_denied(authorized) == ~authorized

\* ------------------------------------------------------------ edit_project
\* lines 98-153.  authorized: authorize.update(project); submit: the request
\* method and whether the form validates; fs_ok: whether the operating system
\* lets os.rename succeed; teardown: see SessionOnError.
edit_project(pid, authorized, submit, name, notes, fs_ok, teardown) ==
  /\ UNCHANGED <<assoc, workers>>
  /\ IF update_denied(authorized)
     THEN \* return render_template("401.html")
          /\ last' = Plain("edit", pid, authorized, "401")
          /\ UNCHANGED <<projects, jobs, dirs>>
     ELSE IF ~HasProject(pid)
     THEN \* project is None: project.path / project.name raises
          /\ last' = Plain("edit", pid, authorized,
                           IF submit = "POST_invalid" THEN "render" ELSE "error500")
          /\ UNCHANGED <<projects, jobs, dirs>>
     ELSE IF submit # "POST_valid"
     THEN \* GET, or a POST that does not validate: the form is rendered
          /\ last' = Plain("edit", pid, authorized, "render")
          /\ UNCHANGED <<projects, jobs, dirs>>
     ELSE
       LET project  == projects[pid]
           path     == project.path
           new_path == join(dirname(path), name)
           found    == ProjectsNamed(name)
           resp(o)  == Response("edit", pid, authorized, o, name, notes,
                                FALSE, NoChecked)
       IN
       IF Cardinality(found) > 1
       THEN \* one_or_none() raises MultipleResultsFound
            /\ last' = resp("error500")
            /\ UNCHANGED <<projects, jobs, dirs>>
       ELSE IF found # {}
       THEN \* flash("A project with the name ... already exists."); redirect
            /\ last' = resp("exists")
            /\ UNCHANGED <<projects, jobs, dirs>>
       ELSE IF ~(fs_ok /\ path \in dirs)
       THEN \* os.rename raises after the job paths were rewritten
            /\ last' = resp("error500")
            /\ jobs' = IF teardown = "persist"
                       THEN UpdateJobPaths(job_ids(pid), path, new_path)
                       ELSE jobs
            /\ UNCHANGED <<projects, dirs>>
       ELSE /\ jobs' = UpdateJobPaths(job_ids(pid), path, new_path)
            /\ dirs' = (dirs \ {path}) \cup {new_path}
            /\ projects' = [projects EXCEPT ![pid] =
                              [@ EXCEPT !.path = new_path, !.name = name,
                                        !.description = notes]]
            /\ last' = resp("updated")

\* ------------------------------------------------------------- add_project
\* lines 251-281.  logged_in: get_current_user() is not None.
add_project(logged_in, submit, name, notes) ==
  /\ UNCHANGED <<jobs, assoc, workers>>
  /\ IF ~logged_in
     THEN /\ last' = Plain("add", 0, logged_in, "404")
          /\ UNCHANGED <<projects, dirs>>
     ELSE IF submit # "POST_valid"
     THEN /\ last' = Plain("add", 0, logged_in, "render")
          /\ UNCHANGED <<projects, dirs>>
     ELSE LET path == project_path(name) IN
          /\ Len(projects) < MaxProjects
          /\ dirs' = dirs \cup {path}              \* mkdir(parents, exist_ok)
          /\ projects' = Append(projects, NewProject(name, notes, path))
          /\ last' = Response("add", Len(projects) + 1, logged_in, "added",
                              name, notes, FALSE, NoChecked)

\* ---------------------------------------------------- the management form
\* str(user.id) in f"user_{user.id}", and int(split[1]) back
Digits == <<"1", "2", "3", "4", "5", "6", "7", "8", "9">>
str(i) == Digits[i]
int(s) == CHOOSE i \in DOMAIN Digits : Digits[i] = s

\* f"{field_name}_{action}" with field_name = f"user_{user.id}", as the tokens
\* key.split("_") yields
field_name(user_id, action) == <<"user", str(user_id), action>>

\* User.query.all()
all_users == [i \in 1 .. NumUsers |-> i]

\* _bind_users_to_form: the current user first when there is more than one user
bound_users(current_user) ==
  IF Len(all_users) > 1
  THEN <<current_user>> \o SelectSeq(all_users, LAMBDA u : u # current_user)
  ELSE all_users

\* the five checkboxes _bind_users_to_form binds for one user, as form.data
\* holds them: a BooleanField's data is True exactly when its box was ticked
user_fields(user_id, ticked) ==
  [i \in DOMAIN actions |->
     [key |-> field_name(user_id, actions[i]), value |-> actions[i] \in ticked]]

RECURSIVE bound_fields(_, _)
bound_fields(order, checked) ==
  IF order = <<>> THEN <<>>
  ELSE user_fields(Head(order), checked[Head(order)])
         \o bound_fields(Tail(order), checked)

\* form.data of a submitted form, in field order: the form's own submit
\* button, the checkboxes of every bound user, then allow_public
form_data(current_user, checked, allow_public) ==
  <<[key |-> <<"submit">>, value |-> TRUE]>>
    \o bound_fields(bound_users(current_user), checked)
    \o <<[key |-> <<"allow", "public">>, value |-> allow_public]>>

\* [x for x in form.data.keys() if "user" in x if form.data[x] is True],
\* each key kept with its field
user_keys(data) ==
  SelectSeq(data, LAMBDA f : "user" \in Range(f.key) /\ f.value = TRUE)

\* lines 198-208: group the ticked actions by user id
RECURSIVE permissions_dict(_, _)
permissions_dict(keys, dict) ==
  IF keys = <<>> THEN dict
  ELSE LET split == Head(keys).key IN
       permissions_dict(Tail(keys),
         IF int(split[2]) \in DOMAIN dict
         THEN [dict EXCEPT ![int(split[2])] = Append(@, split[3])]
         ELSE dict @@ (int(split[2]) :> <<split[3]>>))

\* lines 216-219: permissions_dict[user_id], or [] on KeyError
granted(dict, user_id) == IF user_id \in DOMAIN dict THEN dict[user_id] ELSE <<>>

\* the truth value Python gives form.allow_public, a bound field object, which
\* defines neither __bool__ nor __len__
truth_value(field) == TRUE

\* "read" added to what "other" already holds, instead of replacing it
set_public_appending(permissions) ==
  [permissions EXCEPT !.other = Append(@, "read")]

\* lines 189-191: deepcopy(project.permissions) with "other" set to ["read"]
set_public(permissions) == [permissions EXCEPT !.other = <<"read">>]

\* UserProjectAssociation.query.filter_by(entity_id, resource_id): row indices
assoc_rows(table, user_id, pid) ==
  {i \in DOMAIN table :
     table[i].entity_id = user_id /\ table[i].resource_id = pid}

\* the submitted list merged into the stored one, instead of replacing it
store_assoc_merging(table, found, user_id, pid, permissions) ==
  IF found = 0
  THEN Append(table, [entity_id |-> user_id, resource_id |-> pid,
                      permissions |-> permissions])
  ELSE [table EXCEPT ![found].permissions =
          @ \o SelectSeq(permissions, LAMBDA a : a \notin Range(@))]

\* lines 225-235: create the row, or overwrite the permissions of the one
\* found (found = 0: none); db.session.add; db.session.commit
store_assoc(table, found, user_id, pid, permissions) ==
  IF found = 0
  THEN Append(table, [entity_id |-> user_id, resource_id |-> pid,
                      permissions |-> permissions])
  ELSE [table EXCEPT ![found].permissions = permissions]

\* lines 213-235 from roster position idx on; one_or_none() raises when it
\* finds several rows, and what was committed for earlier users stays
RECURSIVE reconcile(_, _, _, _)
reconcile(table, dict, pid, idx) ==
  IF idx > Len(all_users) THEN [table |-> table, raised |-> FALSE]
  ELSE LET user_id == all_users[idx]
           rows    == assoc_rows(table, user_id, pid)
       IN IF Cardinality(rows) > 1
          THEN [table |-> table, raised |-> TRUE]
          ELSE reconcile(
                 store_assoc(table,
                             IF rows = {} THEN 0 ELSE CHOOSE i \in rows : TRUE,
                             user_id, pid, granted(dict, user_id)),
                 dict, pid, idx + 1)

\* ---------------------------------------------------------- manage_project
\* lines 158-246, served without interleaving.  authorized:
\* authorize.manage(project); checked[u]: the boxes ticked for user u.
manage_project(pid, authorized, current_user, submit, allow_public, checked) ==
  /\ UNCHANGED <<jobs, dirs, workers>>
  /\ IF ~HasProject(pid)
     THEN /\ last' = Plain("manage", pid, authorized, "404")
          /\ UNCHANGED <<projects, assoc>>
     ELSE IF manage_denied(authorized)
     THEN /\ last' = Plain("manage", pid, authorized, "401")
          /\ UNCHANGED <<projects, assoc>>
     ELSE IF submit # "POST_valid"
     THEN /\ last' = Plain("manage", pid, authorized, "render")
          /\ UNCHANGED <<projects, assoc>>
     ELSE
       \E dict \in {permissions_dict(
                      user_keys(form_data(current_user, checked, allow_public)),
                      <<>>)} :
       \E done \in {reconcile(assoc, dict, pid, 1)} :
       /\ projects' = IF truth_value([data |-> allow_public])
                      THEN [projects EXCEPT ![pid].permissions = set_public(@)]
                      ELSE projects
       /\ assoc' = done.table
       /\ last' = Response("manage", pid, authorized,
                           IF done.raised THEN "error500" ELSE "updated",
                           "", "", allow_public, checked)

\* ------------------------------------- manage_project, requests interleaved

\* lines 158-208: everything up to the loop over the users
BeginManage(w, pid, authorized, current_user, submit, allow_public, checked) ==
  /\ workers[w].pc = "idle"
  /\ nreq < MaxRequests
  /\ nreq' = nreq + 1
  /\ UNCHANGED <<jobs, dirs, assoc>>
  /\ IF ~HasProject(pid)
     THEN /\ last' = Plain("manage", pid, authorized, "404")
          /\ UNCHANGED <<projects, workers>>
     ELSE IF manage_denied(authorized)
     THEN /\ last' = Plain("manage", pid, authorized, "401")
          /\ UNCHANGED <<projects, workers>>
     ELSE IF submit # "POST_valid"
     THEN /\ last' = Plain("manage", pid, authorized, "render")
          /\ UNCHANGED <<projects, workers>>
     ELSE
       \E dict \in {permissions_dict(
                      user_keys(form_data(current_user, checked, allow_public)),
                      <<>>)} :
       /\ projects' = IF truth_value([data |-> allow_public])
                      THEN [projects EXCEPT ![pid].permissions = set_public(@)]
                      ELSE projects
       /\ workers' = [workers EXCEPT ![w] =
                        [pc |-> "lookup", pid |-> pid, permissions_dict |-> dict,
                         idx |-> 1, found |-> 0]]
       /\ UNCHANGED last

\* lines 221-223: assoc = ....one_or_none()
LookupAssoc(w) ==
  LET req  == workers[w]
      rows == assoc_rows(assoc, all_users[req.idx], req.pid)
  IN
  /\ req.pc = "lookup"
  /\ UNCHANGED <<projects, jobs, dirs, assoc, nreq>>
  /\ IF Cardinality(rows) > 1
     THEN /\ last' = Plain("manage", req.pid, TRUE, "error500")
          /\ workers' = [workers EXCEPT ![w] = Idle]
     ELSE /\ workers' = [workers EXCEPT ![w].pc = "write",
                                        ![w].found =
                                           IF rows = {} THEN 0
                                           ELSE CHOOSE i \in rows : TRUE]
          /\ UNCHANGED last

\* lines 225-238: create or overwrite, commit, and after the last user respond
WriteAssoc(w) ==
  LET req     == workers[w]
      user_id == all_users[req.idx]
  IN
  /\ req.pc = "write"
  /\ UNCHANGED <<projects, jobs, dirs, nreq>>
  /\ assoc' = store_assoc(assoc, req.found, user_id, req.pid,
                          granted(req.permissions_dict, user_id))
  /\ IF req.idx = Len(all_users)
     THEN /\ last' = Plain("manage", req.pid, TRUE, "updated")
          /\ workers' = [workers EXCEPT ![w] = Idle]
     ELSE /\ workers' = [workers EXCEPT ![w].pc = "lookup", ![w].idx = @ + 1]
          /\ UNCHANGED last

\* ------------------------------------------------------------ the requests
ProjectIds == 1 .. MaxProjects
Matrices   == [Users -> CheckedChoices]

\* A request that is not a valid POST carries no form values the handler
\* could read; whether it is authorized is independent of what it carries.
ValuesOf(submit, values, none) == IF submit = "POST_valid" THEN values ELSE {none}

EditRequest ==
  \E pid \in ProjectIds, authorized \in BOOLEAN, submit \in Submit :
  \E name \in ValuesOf(submit, Names, "A"), notes \in ValuesOf(submit, Notes, "n1"),
     fs_ok \in ValuesOf(submit, BOOLEAN, TRUE) :
  \E teardown \in IF fs_ok THEN {"rollback"} ELSE SessionOnError :
       edit_project(pid, authorized, submit, name, notes, fs_ok, teardown)

AddRequest ==
  \E logged_in \in BOOLEAN, submit \in Submit :
  \E name \in ValuesOf(submit, Names, "A"), notes \in ValuesOf(submit, Notes, "n1") :
       add_project(logged_in, submit, name, notes)

ManageRequest ==
  \E pid \in ProjectIds, authorized \in BOOLEAN, submit \in Submit :
  \E current_user \in ValuesOf(submit, Requesters, 1),
     allow_public \in ValuesOf(submit, BOOLEAN, FALSE),
     checked \in ValuesOf(submit, Matrices, NoChecked) :
       manage_project(pid, authorized, current_user, submit, allow_public, checked)

BeginManageRequest ==
  \E w \in Workers, pid \in ProjectIds, authorized \in BOOLEAN,
     submit \in Submit :
  \E current_user \in ValuesOf(submit, Requesters, 1),
     allow_public \in ValuesOf(submit, BOOLEAN, FALSE),
     checked \in ValuesOf(submit, Matrices, NoChecked) :
       BeginManage(w, pid, authorized, current_user, submit, allow_public, checked)

LookupStep == \E w \in Workers : LookupAssoc(w)
WriteStep  == \E w \in Workers : WriteAssoc(w)

\* one more request is served
Served == nreq < MaxRequests /\ nreq' = nreq + 1

\* --------------------------------------------------------- specifications
\* every handler, one request at a time, MaxRequests requests
Next ==
  \/ Served /\ EditRequest
  \/ Served /\ AddRequest
  \/ Served /\ ManageRequest

Spec == Init /\ [][Next]_vars

\* the Project side: add_project and edit_project, any number of requests
NextProjects ==
  \/ EditRequest /\ UNCHANGED nreq
  \/ AddRequest /\ UNCHANGED nreq

SpecProjects == Init /\ [][NextProjects]_vars

\* manage_project requests whose steps interleave
NextInterleaved ==
  \/ BeginManageRequest
  \/ LookupStep
  \/ WriteStep

SpecInterleaved == Init /\ [][NextInterleaved]_vars

\* ------------------------------------------------------------- properties
\* the permissions lists stored for (user, project)
stored(user_id, pid) ==
  {assoc[i].permissions : i \in assoc_rows(assoc, user_id, pid)}

\* the step serves a valid manage_project submission
ManagePosted == last'.op = "manage" /\ last'.valid /\ nreq' = nreq + 1

\* the step serves a valid edit_project submission for an existing project
EditPosted ==
  last'.op = "edit" /\ last'.valid /\ last' # last /\ HasProject(last'.pid)

\* C1: after a valid manage_project POST for project P, every user of the
\* roster has an entry for P whose permissions list holds exactly the actions
\* ticked for that user, each once (the empty list when none was ticked).
C1_ReconciliationExact ==
  (last.op = "manage" /\ last.valid) =>
     \A u \in Users :
        \E perms \in stored(u, last.pid) :
           /\ stored(u, last.pid) = {perms}
           /\ Range(perms) = last.checked[u]
           /\ Len(perms) = Cardinality(last.checked[u])

\* C1 witness: user 1, granted ["read", "update"] on project 1 at the start,
\* keeps only ["read"], and a user with nothing ticked holds the empty list
C1_Revoked ==
  /\ last.op = "manage" /\ last.valid /\ last.pid = 1
  /\ last.checked[1] = {"read"} /\ stored(1, 1) = {<<"read">>}
  /\ last.checked[NumUsers] = {} /\ stored(NumUsers, 1) = {<<>>}

\* C2: the Access Control Table never holds two entries for the same
\* (user, project) pair, also when manage_project requests interleave.
C2_AtMostOneEntryPerPair ==
  \A i, j \in DOMAIN assoc :
     (assoc[i].entity_id = assoc[j].entity_id
        /\ assoc[i].resource_id = assoc[j].resource_id) => i = j

\* C3: a successful rename from old_path to new_path leaves the project at
\* new_path and turns every job path old_path + suffix of the project into
\* new_path + suffix.
C3_RenameRewritesPrefix ==
  [][(EditPosted /\ last'.outcome = "updated") =>
       LET pid      == last'.pid
           old_path == projects[pid].path
           new_path == join(dirname(old_path), last'.name)
       IN /\ projects'[pid].path = new_path
          /\ \A j \in job_ids(pid) :
               LET n == Len(old_path) IN
               (Len(jobs[j].path) >= n /\ SubSeq(jobs[j].path, 1, n) = old_path)
                 => jobs'[j].path =
                      new_path \o SubSeq(jobs[j].path, n + 1, Len(jobs[j].path))
    ]_vars

\* C4: an edit_project submission whose target name another project already
\* has is answered with the "already exists" message and changes no project,
\* no job path and no directory.
C4_CollisionRejected ==
  [][(/\ EditPosted
      /\ projects[last'.pid].name # last'.name
      /\ \E q \in DOMAIN projects :
            q # last'.pid /\ projects[q].name = last'.name)
       => (last'.outcome = "exists" /\ UNCHANGED <<projects, jobs, dirs>>)
    ]_vars

\* C5: every job's stored path is its project's stored path followed by the
\* job's relative suffix, and every project's stored path is a directory that
\* exists on disk.
C5_PathsConsistent ==
  /\ \A j \in DOMAIN jobs :
        jobs[j].path = projects[jobs[j].project].path \o JobSuffix[j]
  /\ \A p \in DOMAIN projects : projects[p].path \in dirs

\* C6: no two Project records have the same name.
C6_UniqueNames ==
  \A p, q \in DOMAIN projects : projects[p].name = projects[q].name => p = q

\* C7: a request that authorize.update / authorize.manage does not let
\* through changes no project, job path, directory or access control entry,
\* and is answered with the unauthorized page (for manage_project, when the
\* project exists: a missing project is answered 404 before the check).
C7_NoChangeUnlessAuthorized ==
  [][(nreq' = nreq + 1 /\ last'.op \in {"edit", "manage"} /\ ~last'.authorized)
       => /\ UNCHANGED <<projects, jobs, dirs, assoc>>
          /\ (last'.op = "edit" \/ HasProject(last'.pid)) => last'.outcome = "401"
    ]_vars

\* C7 witness: an unauthorized edit served after an authorized request
C7_Denied ==
  /\ last.op = "edit" /\ ~last.authorized /\ last.outcome = "401"
  /\ nreq = MaxRequests

\* C8: after a valid manage_project submission with "allow public" ticked the
\* project's permissions["other"] is exactly ["read"], and the lists of the
\* other subject classes are what they were.
C8_PublicSetsOtherToRead ==
  [][(ManagePosted /\ last'.allow_public) =>
       LET before == projects[last'.pid].permissions
           after  == projects'[last'.pid].permissions
       IN /\ after.other = <<"read">>
          /\ DOMAIN after = DOMAIN before
          /\ \A k \in DOMAIN before \ {"other"} : after[k] = before[k]
    ]_vars

\* C8 witness: "allow public" was ticked for a project and it is public-read
C8_MadePublic ==
  /\ last.op = "manage" /\ last.valid /\ last.allow_public
  /\ projects[last.pid].permissions.other = <<"read">>

\* C9: a valid manage_project submission without "allow public" ticked leaves
\* the project's permissions object as it was.
C9_UntickedLeavesPermissions ==
  [][(ManagePosted /\ ~last'.allow_public) =>
       projects'[last'.pid].permissions = projects[last'.pid].permissions
    ]_vars

\* C10: an edit_project submission that keeps the project's own name, which no
\* other project has, is applied: the description becomes the submitted one,
\* and name, path and job paths stay.
C10_OwnNameIsNoCollision ==
  [][(EditPosted /\ ProjectsNamed(last'.name) = {last'.pid}) =>
       /\ projects'[last'.pid] =
            [projects[last'.pid] EXCEPT !.description = last'.notes]
       /\ jobs' = jobs
    ]_vars

=============================================================================
